---- MODULE Spec2Model ----
(***************************************************************************)
(* Push-notification relay endpoint (backend/src/routes/notifications.ts)  *)
(* and client notification context (app/notification-preferences.tsx).     *)
(*                                                                         *)
(* Texts (titles, keys, error messages, provider bodies) are sequences of  *)
(* string tokens, concatenated with \o the way the code builds template    *)
(* strings.  JSON objects are functions from the property names that are   *)
(* present to their values, so an absent property is a name outside the    *)
(* DOMAIN.                                                                  *)
(***************************************************************************)
EXTENDS Integers, Sequences, FiniteSets, TLC

VARIABLES
    \* ---- relay (server) ----
    restApiKey,   \* process.env.ONESIGNAL_REST_API_KEY: [set, value]
    request,      \* inbound request: [hasBody, body]
    rpc,          \* position of the request in the route
    reply,        \* what the caller receives: JSON object plus "status"
    response,     \* the provider's answer to fetch
    fetchCalls,   \* invocations of fetch for the current request
    outbound,     \* arguments of the last fetch
    thrown,       \* the exception raised while handling the request
    unhandled,    \* an exception left the handler
    \* ---- client (NotificationProvider) ----
    isWeb,            \* Platform.OS === "web"
    ONESIGNAL_APP_ID, \* extra.oneSignalAppId || ""
    cpc,              \* "mounted": rendered, effect pending; "ready": effect ran
    hasPermission,
    permissionDenied,
    loading,
    lastNotification,
    sdk,              \* the OneSignal SDK: what was called on it, what it holds
    prompts,          \* requestPermission calls awaiting the SDK's prompt
    calls,            \* completed context operations, oldest first
    mounts,           \* how many times the provider has been mounted
    listening,        \* the listeners the mounted provider registered
    stalePrompts,     \* prompts still pending for an unmounted provider
    fg,               \* foreground arrivals and the SDK's display calls
    \* the preferences screen
    categories,       \* the local category toggles
    dialog,           \* the alert the screen last raised
    toggles,          \* per category, the last toggle since the screen mounted
    promptRequests,   \* how often the screen asked the provider for the prompt
    \* the send button
    button,           \* loading, modalVisible, modalConfig
    inFlight,         \* relay calls awaiting their answer
    sendLog           \* presses, modals shown, and the last answer

relayVars == <<restApiKey, request, rpc, reply, response, fetchCalls, outbound,
               thrown, unhandled>>

clientState == <<hasPermission, permissionDenied, loading, lastNotification>>

providerVars == <<isWeb, ONESIGNAL_APP_ID, cpc, clientState, sdk, prompts, calls,
                  mounts, listening, stalePrompts, fg>>

screenVars == <<categories, dialog, toggles, promptRequests>>

buttonVars == <<button, inFlight, sendLog>>

clientVars == <<providerVars, screenVars, buttonVars>>

vars == <<relayVars, clientVars>>

----------------------------------------------------------------------------
(* Text helpers *)

Contains(text, sub) ==
    /\ Len(sub) > 0
    /\ \E i \in 1..Len(text) :
          /\ i + Len(sub) - 1 <= Len(text)
          /\ SubSeq(text, i, i + Len(sub) - 1) = sub

----------------------------------------------------------------------------
(* Inputs of the relay *)

Titles == {<<>>, <<"Hello">>}
Messages == {<<>>, <<"World">>}

\* JSON bodies: any subset of the two properties may be present.
Bodies ==
    UNION {[D -> Titles \cup Messages] : D \in SUBSET {"title", "message"}}

Requests ==
    {[hasBody |-> FALSE, body |-> << >>]}
        \cup {[hasBody |-> TRUE, body |-> b] : b \in
                 {b \in Bodies :
                     /\ ("title" \in DOMAIN b => b.title \in Titles)
                     /\ ("message" \in DOMAIN b => b.message \in Messages)}}

\* Values of the environment variable: unset, empty, two usable keys and a
\* key holding a line break (not a legal HTTP header value).
EnvKeys ==
    {[set |-> FALSE, value |-> << >>],
     [set |-> TRUE, value |-> << >>],
     [set |-> TRUE, value |-> <<"key-A">>],
     [set |-> TRUE, value |-> <<"key-B">>],
     [set |-> TRUE, value |-> <<"key", "\n", "C">>]}

ProviderIds == {<<"abc123">>, << >>}
RawWithId(id) == <<"{\"id\":\"">> \o id \o <<"\"}">>
RawNoId == <<"{\"errors\":[\"Invalid app_id\"]}">>
RawNull == <<"null">>
RawHtml == <<"<html>Bad Gateway</html>">>
RawBodies == {RawWithId(id) : id \in ProviderIds} \cup {RawNoId, RawNull, RawHtml}

ProviderStatuses == {200, 400, 503}
StatusText(status) ==
    CASE status = 200 -> <<"OK">>
      [] status = 400 -> <<"Bad Request">>
      [] OTHER -> << >>

ProviderResponses ==
    {[status |-> s, statusText |-> StatusText(s), raw |-> b] :
        s \in ProviderStatuses, b \in RawBodies}

NoException == [raised |-> FALSE, isError |-> FALSE, message |-> << >>]
\* What a failing network operation rejects with.
NetworkErrors ==
    {[raised |-> TRUE, isError |-> TRUE, message |-> <<"fetch failed">>],
     [raised |-> TRUE, isError |-> FALSE, message |-> << >>]}

----------------------------------------------------------------------------
(* The route's body schema and the framework around the handler *)

\* The route registered without its body schema.
SchemaAcceptsAll(req) == TRUE

\* schema.body: type object, required title and message, both strings.
SchemaValid(req) ==
    /\ req.hasBody
    /\ "title" \in DOMAIN req.body
    /\ "message" \in DOMAIN req.body

\* The framework's own answer to a body the schema rejects: the handler is
\* not called, and the 400 response schema keeps only the properties the
\* validation error has.
ValidationReply == [status |-> 400, error |-> <<"Bad Request">>]

\* The framework's answer when the handler's promise rejects.
UnhandledReply == [status |-> 500, error |-> <<"Internal Server Error">>]

----------------------------------------------------------------------------
(* The handler *)

Falsy(text) == text = << >>

\* The credential check left out.
KeyCheckOmitted(key) == FALSE

\* !restApiKey
KeyMissing(key) == ~key.set \/ Falsy(key.value)

MissingFieldsReply ==
    [status |-> 400, success |-> FALSE,
     error |-> <<"Missing required fields: title and message">>]

NotConfiguredReply ==
    [status |-> 500, success |-> FALSE, error |-> <<"OneSignal not configured">>]

\* The provider's raw error body echoed to the caller.
ProviderErrorReplyEchoesBody(resp) ==
    [status |-> 500, success |-> FALSE,
     error |-> <<"OneSignal API error: ">> \o resp.raw]

ProviderErrorReply(resp) ==
    [status |-> 500, success |-> FALSE,
     error |-> <<"OneSignal API error: ">> \o resp.statusText]

\* The notification identifier dropped from the success reply.
SuccessReplyWithoutId(data) == [status |-> 200, success |-> TRUE]

SuccessReply(data) ==
    IF "id" \in DOMAIN data
    THEN [status |-> 200, success |-> TRUE, notificationId |-> data.id]
    ELSE [status |-> 200, success |-> TRUE]

CatchReply(e) ==
    [status |-> 500, success |-> FALSE,
     error |-> IF e.isError THEN e.message ELSE <<"Unknown error occurred">>]

AuthorizationHeader(key) == <<"Basic ">> \o key.value

Payload(title, message) ==
    [app_id |-> <<"84bd5859-82bd-44dd-8a2e-c7e1ccca59f9">>,
     included_segments |-> <<"All">>,
     headings |-> [en |-> title],
     contents |-> [en |-> message]]

\* fetch refuses a header value that holds a line break, and its TypeError
\* quotes the value.
ValidHeaderValue(value) == \A i \in 1..Len(value) : value[i] \notin {"\n", "\r"}

InvalidHeaderError(value) ==
    [raised |-> TRUE, isError |-> TRUE,
     message |-> <<"Headers.append: \"">> \o value
                    \o <<"\" is an invalid header value.">>]

\* response.ok
Ok(resp) == resp.status >= 200 /\ resp.status <= 299

\* response.json(): the parsed value, or a SyntaxError quoting the text.
JsonParse(raw) ==
    IF raw = RawNull
    THEN [ok |-> TRUE, isNull |-> TRUE, value |-> << >>]
    ELSE IF raw = RawNoId
    THEN [ok |-> TRUE, isNull |-> FALSE, value |-> << >>]
    ELSE IF \E id \in ProviderIds : raw = RawWithId(id)
    THEN [ok |-> TRUE, isNull |-> FALSE,
          value |-> [id |-> CHOOSE id \in ProviderIds : raw = RawWithId(id)]]
    ELSE [ok |-> FALSE, isNull |-> FALSE, value |-> << >>]

JsonSyntaxError(raw) ==
    [raised |-> TRUE, isError |-> TRUE,
     message |-> <<"Unexpected token in JSON: ">> \o raw]

NullPropertyError ==
    [raised |-> TRUE, isError |-> TRUE,
     message |-> <<"Cannot read properties of null (reading 'id')">>]

NoResponse == [status |-> 0, statusText |-> << >>, raw |-> << >>]
NoOutbound == [authorization |-> << >>]
NoReply == [status |-> 0]

RelayInit ==
    /\ restApiKey = [set |-> FALSE, value |-> << >>]
    /\ request = [hasBody |-> FALSE, body |-> << >>]
    /\ rpc = "down"
    /\ reply = NoReply
    /\ response = NoResponse
    /\ fetchCalls = 0
    /\ outbound = NoOutbound
    /\ thrown = NoException
    /\ unhandled = FALSE

\* register(app, fastify): the process starts with its environment and the
\* route is added.
Register(key) ==
    /\ rpc = "down"
    /\ rpc' = "idle"
    /\ restApiKey' = key
    /\ UNCHANGED <<request, reply, response, fetchCalls, outbound, thrown, unhandled>>
    /\ UNCHANGED clientVars

\* The catch block of the handler.
Catch(e) ==
    /\ thrown' = e
    /\ reply' = CatchReply(e)
    /\ rpc' = "done"

\* A request arrives; the framework validates it against the body schema
\* and either answers itself or hands it to the handler.
Receive(req) ==
    /\ rpc \in {"idle", "done"}
    /\ request' = req
    /\ response' = NoResponse
    /\ fetchCalls' = 0
    /\ outbound' = NoOutbound
    /\ thrown' = NoException
    /\ unhandled' = FALSE
    /\ IF SchemaValid(req)
       THEN rpc' = "handler" /\ reply' = NoReply
       ELSE rpc' = "done" /\ reply' = ValidationReply
    /\ UNCHANGED restApiKey
    /\ UNCHANGED clientVars

\* The handler from its first line to the await of fetch.
HandleSend ==
    /\ rpc = "handler"
    /\ IF ~request.hasBody
       THEN \* destructuring undefined, before the try
            /\ unhandled' = TRUE
            /\ thrown' = [raised |-> TRUE, isError |-> TRUE,
                          message |-> <<"Cannot destructure property 'title'">>]
            /\ reply' = UnhandledReply
            /\ rpc' = "done"
            /\ UNCHANGED <<fetchCalls, outbound>>
       ELSE LET title == IF "title" \in DOMAIN request.body
                         THEN request.body.title ELSE << >>
                message == IF "message" \in DOMAIN request.body
                           THEN request.body.message ELSE << >>
            IN  IF Falsy(title) \/ Falsy(message)
                THEN /\ reply' = MissingFieldsReply
                     /\ rpc' = "done"
                     /\ UNCHANGED <<fetchCalls, outbound, thrown, unhandled>>
                ELSE IF KeyMissing(restApiKey)
                THEN /\ reply' = NotConfiguredReply
                     /\ rpc' = "done"
                     /\ UNCHANGED <<fetchCalls, outbound, thrown, unhandled>>
                ELSE /\ fetchCalls' = fetchCalls + 1
                     /\ outbound' = [authorization |-> AuthorizationHeader(restApiKey),
                                     body |-> Payload(title, message)]
                     /\ IF ValidHeaderValue(AuthorizationHeader(restApiKey))
                        THEN rpc' = "fetch" /\ UNCHANGED <<reply, thrown>>
                        ELSE Catch(InvalidHeaderError(AuthorizationHeader(restApiKey)))
                     /\ UNCHANGED unhandled
    /\ UNCHANGED <<restApiKey, request, response>>
    /\ UNCHANGED clientVars

\* fetch settles: the provider answered, or the network failed.
FetchResolves(resp) ==
    /\ rpc = "fetch"
    /\ response' = resp
    /\ rpc' = IF Ok(resp) THEN "json" ELSE "text"
    /\ UNCHANGED <<restApiKey, request, reply, fetchCalls, outbound, thrown, unhandled>>
    /\ UNCHANGED clientVars

FetchRejects(e) ==
    /\ rpc = "fetch"
    /\ Catch(e)
    /\ UNCHANGED <<restApiKey, request, response, fetchCalls, outbound, unhandled>>
    /\ UNCHANGED clientVars

\* !response.ok: await response.text(), log, reply 500.
ReadErrorBody ==
    /\ rpc = "text"
    /\ reply' = ProviderErrorReply(response)
    /\ rpc' = "done"
    /\ UNCHANGED <<restApiKey, request, response, fetchCalls, outbound, thrown, unhandled>>
    /\ UNCHANGED clientVars

ReadErrorBodyRejects(e) ==
    /\ rpc = "text"
    /\ Catch(e)
    /\ UNCHANGED <<restApiKey, request, response, fetchCalls, outbound, unhandled>>
    /\ UNCHANGED clientVars

\* await response.json(), responseData.id, reply 200.
ParseJson ==
    /\ rpc = "json"
    /\ LET parsed == JsonParse(response.raw)
       IN  IF ~parsed.ok
           THEN Catch(JsonSyntaxError(response.raw))
           ELSE IF parsed.isNull
           THEN Catch(NullPropertyError)
           ELSE /\ reply' = SuccessReply(parsed.value)
                /\ rpc' = "done"
                /\ UNCHANGED thrown
    /\ UNCHANGED <<restApiKey, request, response, fetchCalls, outbound, unhandled>>
    /\ UNCHANGED clientVars

ParseJsonRejects(e) ==
    /\ rpc = "json"
    /\ Catch(e)
    /\ UNCHANGED <<restApiKey, request, response, fetchCalls, outbound, unhandled>>
    /\ UNCHANGED clientVars

RelayNext ==
    \/ \E key \in EnvKeys : Register(key)
    \/ \E req \in Requests : Receive(req)
    \/ HandleSend
    \/ \E resp \in ProviderResponses : FetchResolves(resp)
    \/ \E e \in NetworkErrors : FetchRejects(e)
    \/ ReadErrorBody
    \/ \E e \in NetworkErrors : ReadErrorBodyRejects(e)
    \/ ParseJson
    \/ \E e \in NetworkErrors : ParseJsonRejects(e)


----------------------------------------------------------------------------
(* The client: NotificationProvider and the SDK it wraps *)

MaxCalls == 2
MaxPrompts == 1
MaxMounts == 2
MaxArrivals == 2
MaxPresses == 2

TagKeys == {"notify_updates", "notify_promotions"}
NoTag == "<unset>"

Null == [null |-> TRUE]
Notifications ==
    {[title |-> "n1", body |-> "first", additionalData |-> [order |-> 1]],
     [title |-> "n2", body |-> "second", additionalData |-> [order |-> 2]]}

\* Where the SDK may throw during the mount effect.
InitFailures == {"none", "initialize", "hasPermission", "foregroundWillDisplay",
                 "permissionChange"}

SdkInit ==
    [initialized |-> 0,        \* OneSignal.initialize calls
     permission |-> FALSE,     \* the device's notification permission
     fgListeners |-> 0,        \* foregroundWillDisplay listeners
     permListeners |-> 0,      \* permissionChange listeners
     tags |-> [k \in TagKeys |-> NoTag],
     callCount |-> 0]          \* every call made on the SDK

NotListening == [fg |-> FALSE, perm |-> FALSE]

\* No notification has arrived: last is the most recent arrival the mounted
\* provider was told of.
NoArrivals == [arrivals |-> 0, displays |-> 0, last |-> Null]

\* NOTIFICATION_CATEGORIES: every category is enabled by default. The tag of
\* category key is notify_<key>, which names the category here.
DefaultCategories == [k \in TagKeys |-> TRUE]

NoToggles == [k \in TagKeys |-> [toggled |-> FALSE, value |-> TRUE, sdkThrew |-> FALSE]]

\* The send button's useState initial values.
ButtonInit ==
    [loading |-> FALSE, modalVisible |-> FALSE,
     modalConfig |-> [title |-> << >>, message |-> << >>, type |-> "success"]]

NoAnswer == [kind |-> "none"]

NoSends == [presses |-> 0, shown |-> 0, last |-> NoAnswer]

ClientInit ==
    /\ isWeb \in BOOLEAN
    /\ ONESIGNAL_APP_ID \in {<< >>, <<"app-id">>}
    /\ cpc = "mounted"
    /\ hasPermission = FALSE
    /\ permissionDenied = FALSE
    /\ loading = TRUE
    /\ lastNotification = Null
    /\ sdk \in {[SdkInit EXCEPT !.permission = p] : p \in BOOLEAN}
    /\ prompts = 0
    /\ calls = << >>
    /\ mounts = 1
    /\ listening = NotListening
    /\ stalePrompts = 0
    /\ fg = NoArrivals
    /\ categories = DefaultCategories
    /\ dialog = "none"
    /\ toggles = NoToggles
    /\ promptRequests = 0
    /\ button = ButtonInit
    /\ inFlight = 0
    /\ sendLog = NoSends

\* The steps of the effect's try block that run when the SDK throws at
\* failAt: each step is one SDK call, and a throwing call has no effect.
InitSteps == <<"initialize", "hasPermission", "foregroundWillDisplay", "permissionChange">>

StepIndex(step) == CHOOSE i \in 1..Len(InitSteps) : InitSteps[i] = step

\* step is called (it is at or before the failing one)
Called(step, failAt) ==
    failAt = "none" \/ StepIndex(step) <= StepIndex(failAt)

\* step is called and returns
Done(step, failAt) ==
    failAt = "none" \/ StepIndex(step) < StepIndex(failAt)

Count(b) == IF b THEN 1 ELSE 0

\* setLoading(false) as the last statement of the try block instead of in
\* a finally clause.
LoadingAfterInitNoFinally(failAt) == failAt # "none"

\* finally { setLoading(false) }
LoadingAfterInit(failAt) == FALSE

\* The early returns of the mount effect.
InitSkipsSdk == isWeb \/ Falsy(ONESIGNAL_APP_ID)

\* useEffect(() => { ... }, []): the whole effect is synchronous.
InitEffect(failAt) ==
    /\ cpc = "mounted"
    /\ cpc' = "ready"
    /\ IF InitSkipsSdk
       THEN /\ failAt = "none"
            /\ loading' = FALSE
            /\ UNCHANGED <<hasPermission, sdk, listening>>
       ELSE /\ loading' = LoadingAfterInit(failAt)
            /\ listening' = [fg |-> Done("foregroundWillDisplay", failAt),
                             perm |-> Done("permissionChange", failAt)]
            /\ sdk' = [sdk EXCEPT
                 !.initialized = @ + Count(Done("initialize", failAt)),
                 !.fgListeners = @ + Count(Done("foregroundWillDisplay", failAt)),
                 !.permListeners = @ + Count(Done("permissionChange", failAt)),
                 !.callCount = @ + Cardinality({i \in 1..Len(InitSteps) :
                                                   Called(InitSteps[i], failAt)})]
            /\ hasPermission' = IF Done("hasPermission", failAt)
                                THEN sdk.permission ELSE hasPermission
    /\ UNCHANGED <<isWeb, ONESIGNAL_APP_ID, permissionDenied, lastNotification,
                   prompts, calls, mounts, stalePrompts, fg>>
    /\ UNCHANGED <<relayVars, screenVars, buttonVars>>

\* requestPermission without its web guard.
RequestPermissionNeverNoOp == FALSE

\* The guards that turn each operation into a no-op.
RequestPermissionIsNoOp == isWeb
SendTagIsNoOp == isWeb
DeleteTagIsNoOp == isWeb

\* sendTag without its try/catch: the SDK's exception reaches the caller.
SendTagUncaught == [completed |-> FALSE, value |-> FALSE]

\* What the caller of an operation sees when the SDK call inside it throws:
\* the catch block logs, and the operation returns.
RequestPermissionCaught == [completed |-> TRUE, value |-> FALSE]
SendTagCaught == [completed |-> TRUE, value |-> FALSE]
DeleteTagCaught == [completed |-> TRUE, value |-> FALSE]

Returned(v) == [completed |-> TRUE, value |-> v]

Record(op, key, sdkCalled, sdkThrew, outcome) ==
    calls' = Append(calls, [op |-> op, key |-> key, sdkCalled |-> sdkCalled,
                            sdkThrew |-> sdkThrew,
                            completed |-> outcome.completed,
                            value |-> outcome.value])

CanCall == cpc = "ready" /\ Len(calls) + prompts + stalePrompts < MaxCalls

\* requestPermission up to its await: the no-op on web, a synchronous
\* throw of the SDK, or the prompt left pending.
requestPermission(sdkThrows) ==
    /\ CanCall
    /\ IF RequestPermissionIsNoOp
       THEN /\ ~sdkThrows
            /\ Record("requestPermission", NoTag, FALSE, FALSE, Returned(FALSE))
            /\ UNCHANGED <<sdk, prompts>>
       ELSE /\ sdk' = [sdk EXCEPT !.callCount = @ + 1]
            /\ IF sdkThrows
               THEN /\ Record("requestPermission", NoTag, TRUE, TRUE,
                              RequestPermissionCaught)
                    /\ UNCHANGED prompts
               ELSE /\ prompts < MaxPrompts
                    /\ prompts' = prompts + 1
                    /\ UNCHANGED calls
    /\ UNCHANGED <<isWeb, ONESIGNAL_APP_ID, cpc, clientState, mounts, listening,
                   stalePrompts, fg>>

\* A consumer of the context calls requestPermission.
RequestPermissionCall(sdkThrows) ==
    /\ requestPermission(sdkThrows)
    /\ UNCHANGED <<relayVars, screenVars, buttonVars>>

\* The prompt resolves: setHasPermission(granted), setPermissionDenied(!granted).
RequestPermissionResolves(granted) ==
    /\ prompts > 0
    /\ prompts' = prompts - 1
    /\ hasPermission' = granted
    /\ permissionDenied' = ~granted
    /\ sdk' = [sdk EXCEPT !.permission = granted]
    /\ Record("requestPermission", NoTag, TRUE, FALSE, Returned(granted))
    /\ UNCHANGED <<isWeb, ONESIGNAL_APP_ID, cpc, loading, lastNotification, mounts,
                   listening, stalePrompts, fg>>
    /\ UNCHANGED <<relayVars, screenVars, buttonVars>>

\* The prompt rejects: the catch block returns false.
RequestPermissionRejects ==
    /\ prompts > 0
    /\ prompts' = prompts - 1
    /\ Record("requestPermission", NoTag, TRUE, TRUE, RequestPermissionCaught)
    /\ UNCHANGED <<isWeb, ONESIGNAL_APP_ID, cpc, clientState, sdk, mounts, listening,
                   stalePrompts, fg>>
    /\ UNCHANGED <<relayVars, screenVars, buttonVars>>

sendTag(key, value, sdkThrows) ==
    /\ CanCall
    /\ IF SendTagIsNoOp
       THEN /\ ~sdkThrows
            /\ Record("sendTag", key, FALSE, FALSE, Returned(FALSE))
            /\ UNCHANGED sdk
       ELSE IF sdkThrows
       THEN /\ sdk' = [sdk EXCEPT !.callCount = @ + 1]
            /\ Record("sendTag", key, TRUE, TRUE, SendTagCaught)
       ELSE /\ sdk' = [sdk EXCEPT !.callCount = @ + 1, !.tags[key] = value]
            /\ Record("sendTag", key, TRUE, FALSE, Returned(FALSE))
    /\ UNCHANGED <<isWeb, ONESIGNAL_APP_ID, cpc, clientState, prompts, mounts,
                   listening, stalePrompts, fg>>

deleteTag(key, sdkThrows) ==
    /\ CanCall
    /\ IF DeleteTagIsNoOp
       THEN /\ ~sdkThrows
            /\ Record("deleteTag", key, FALSE, FALSE, Returned(FALSE))
            /\ UNCHANGED sdk
       ELSE IF sdkThrows
       THEN /\ sdk' = [sdk EXCEPT !.callCount = @ + 1]
            /\ Record("deleteTag", key, TRUE, TRUE, DeleteTagCaught)
       ELSE /\ sdk' = [sdk EXCEPT !.callCount = @ + 1, !.tags[key] = NoTag]
            /\ Record("deleteTag", key, TRUE, FALSE, Returned(FALSE))
    /\ UNCHANGED <<isWeb, ONESIGNAL_APP_ID, cpc, clientState, prompts, mounts,
                   listening, stalePrompts, fg>>

\* A consumer of the context calls sendTag or deleteTag.
SendTag(key, value, sdkThrows) ==
    /\ sendTag(key, value, sdkThrows)
    /\ UNCHANGED <<relayVars, screenVars, buttonVars>>

DeleteTag(key, sdkThrows) ==
    /\ deleteTag(key, sdkThrows)
    /\ UNCHANGED <<relayVars, screenVars, buttonVars>>

\* The device's permission changes; the SDK tells the permissionChange
\* listeners.
PermissionChange(granted) ==
    /\ ~isWeb
    /\ cpc = "ready"
    /\ sdk.permission # granted
    /\ sdk' = [sdk EXCEPT !.permission = granted]
    /\ IF listening.perm
       THEN hasPermission' = granted /\ permissionDenied' = ~granted
       ELSE UNCHANGED <<hasPermission, permissionDenied>>
    /\ UNCHANGED <<isWeb, ONESIGNAL_APP_ID, cpc, loading, lastNotification,
                   prompts, calls, mounts, listening, stalePrompts, fg>>
    /\ UNCHANGED <<relayVars, screenVars, buttonVars>>

\* A listener that keeps the first notification it captured.
CaptureKeepsFirst(previous, n) == IF previous = Null THEN n ELSE previous

\* setLastNotification({ title, body, additionalData }) of the arrival.
Capture(previous, n) ==
    [title |-> n.title, body |-> n.body, additionalData |-> n.additionalData]

\* A notification arrives in the foreground; the SDK tells every registered
\* foregroundWillDisplay listener, and each calls display() before it
\* captures. Only the mounted provider's setter changes the state.
ForegroundWillDisplay(n) ==
    /\ ~isWeb
    /\ cpc = "ready"
    /\ sdk.fgListeners > 0
    /\ fg.arrivals < MaxArrivals
    /\ fg' = [arrivals |-> fg.arrivals + 1,
              displays |-> fg.displays + sdk.fgListeners,
              last |-> IF listening.fg THEN n ELSE fg.last]
    /\ lastNotification' = IF listening.fg
                           THEN Capture(lastNotification, n)
                           ELSE lastNotification
    /\ UNCHANGED <<isWeb, ONESIGNAL_APP_ID, cpc, hasPermission, permissionDenied,
                   loading, sdk, prompts, calls, mounts, listening, stalePrompts>>
    /\ UNCHANGED <<relayVars, screenVars, buttonVars>>

\* The provider is unmounted. The effect returns no cleanup, so the SDK keeps
\* the listeners; a pending prompt stays pending.
Unmount ==
    /\ cpc = "ready"
    /\ cpc' = "unmounted"
    /\ listening' = NotListening
    /\ stalePrompts' = stalePrompts + prompts
    /\ prompts' = 0
    /\ UNCHANGED <<isWeb, ONESIGNAL_APP_ID, clientState, sdk, calls, mounts, fg>>
    /\ UNCHANGED <<relayVars, screenVars, buttonVars>>

\* The provider is mounted again: fresh useState values, and the effect is
\* due to run.
Mount ==
    /\ cpc = "unmounted"
    /\ mounts < MaxMounts
    /\ cpc' = "mounted"
    /\ mounts' = mounts + 1
    /\ hasPermission' = FALSE
    /\ permissionDenied' = FALSE
    /\ loading' = TRUE
    /\ lastNotification' = Null
    /\ fg' = [fg EXCEPT !.last = Null]
    /\ categories' = DefaultCategories
    /\ toggles' = NoToggles
    /\ dialog' = "none"
    /\ UNCHANGED <<isWeb, ONESIGNAL_APP_ID, sdk, prompts, calls, listening,
                   stalePrompts, promptRequests>>
    /\ UNCHANGED <<relayVars, buttonVars>>

\* The prompt of a provider that has been unmounted since is answered: the
\* setters of the unmounted provider change nothing.
StalePromptResolves(granted) ==
    /\ stalePrompts > 0
    /\ stalePrompts' = stalePrompts - 1
    /\ sdk' = [sdk EXCEPT !.permission = granted]
    /\ Record("requestPermission", NoTag, TRUE, FALSE, Returned(granted))
    /\ UNCHANGED <<isWeb, ONESIGNAL_APP_ID, cpc, clientState, prompts, mounts,
                   listening, fg>>
    /\ UNCHANGED <<relayVars, screenVars, buttonVars>>

StalePromptRejects ==
    /\ stalePrompts > 0
    /\ stalePrompts' = stalePrompts - 1
    /\ Record("requestPermission", NoTag, TRUE, TRUE, RequestPermissionCaught)
    /\ UNCHANGED <<isWeb, ONESIGNAL_APP_ID, cpc, clientState, sdk, prompts, mounts,
                   listening, fg>>
    /\ UNCHANGED <<relayVars, screenVars, buttonVars>>

ClientNext ==
    \/ \E failAt \in InitFailures : InitEffect(failAt)
    \/ \E t \in BOOLEAN : RequestPermissionCall(t)
    \/ \E g \in BOOLEAN : RequestPermissionResolves(g)
    \/ RequestPermissionRejects
    \/ \E k \in TagKeys, t \in BOOLEAN : SendTag(k, "true", t)
    \/ \E k \in TagKeys, t \in BOOLEAN : DeleteTag(k, t)
    \/ \E g \in BOOLEAN : PermissionChange(g)
    \/ \E n \in Notifications : ForegroundWillDisplay(n)
    \/ Unmount
    \/ Mount
    \/ \E g \in BOOLEAN : StalePromptResolves(g)
    \/ StalePromptRejects

----------------------------------------------------------------------------
(* The preferences screen, a consumer of the context *)

\* An Enable handler that asks for the prompt whatever the permission state.
EnableAlwaysRequests == FALSE

\* if (permissionDenied) { Alert.alert(...); return; }
EnableOffersSettings == permissionDenied

handleEnableNotifications(sdkThrows) ==
    /\ IF EnableOffersSettings
       THEN /\ ~sdkThrows
            /\ dialog' = "settings"
            /\ UNCHANGED <<providerVars, promptRequests>>
       ELSE /\ requestPermission(sdkThrows)
            /\ promptRequests' = promptRequests + 1
            /\ UNCHANGED dialog
    /\ UNCHANGED <<categories, toggles>>

\* The Enable button is rendered off the web while hasPermission is false.
PressEnable(sdkThrows) ==
    /\ ~isWeb
    /\ cpc = "ready"
    /\ dialog = "none"
    /\ ~hasPermission
    /\ handleEnableNotifications(sdkThrows)
    /\ UNCHANGED <<relayVars, buttonVars>>

\* The alert's Cancel button.
DismissDialog ==
    /\ dialog # "none"
    /\ dialog' = "none"
    /\ UNCHANGED <<categories, toggles, promptRequests>>
    /\ UNCHANGED <<relayVars, providerVars, buttonVars>>

\* A toggle handler that sets the tag whichever way the switch went.
TagOperationAlwaysSend(value) == "sendTag"

\* value ? sendTag(...) : deleteTag(...)
TagOperation(value) == IF value THEN "sendTag" ELSE "deleteTag"

handleCategoryToggle(key, value, sdkThrows) ==
    /\ categories' = [categories EXCEPT ![key] = value]
    /\ toggles' = [toggles EXCEPT ![key] =
                      [toggled |-> TRUE, value |-> value, sdkThrew |-> sdkThrows]]
    /\ IF TagOperation(value) = "sendTag"
       THEN sendTag(key, "true", sdkThrows)
       ELSE deleteTag(key, sdkThrows)
    /\ UNCHANGED <<dialog, promptRequests>>

\* The switches are rendered off the web while hasPermission is true; a
\* switch reports the opposite of the value it shows.
ToggleCategory(key, sdkThrows) ==
    /\ ~isWeb
    /\ cpc = "ready"
    /\ dialog = "none"
    /\ hasPermission
    /\ handleCategoryToggle(key, ~categories[key], sdkThrows)
    /\ UNCHANGED <<relayVars, buttonVars>>

ScreenNext ==
    \/ \E failAt \in InitFailures : InitEffect(failAt)
    \/ \E t \in BOOLEAN : PressEnable(t)
    \/ DismissDialog
    \/ \E g \in BOOLEAN : RequestPermissionResolves(g)
    \/ RequestPermissionRejects
    \/ \E g \in BOOLEAN : PermissionChange(g)
    \/ \E k \in TagKeys, t \in BOOLEAN : ToggleCategory(k, t)
    \/ Unmount
    \/ Mount
    \/ \E g \in BOOLEAN : StalePromptResolves(g)
    \/ StalePromptRejects

----------------------------------------------------------------------------
(* The send button and the REST helper *)

\* What the relay can answer to POST /api/notifications/send.
RelayReplies ==
    {MissingFieldsReply, ValidationReply, NotConfiguredReply, UnhandledReply}
    \cup {ProviderErrorReply(r) : r \in {x \in ProviderResponses : ~Ok(x)}}
    \cup {SuccessReply(JsonParse(b).value) :
             b \in {x \in RawBodies : JsonParse(x).ok /\ ~JsonParse(x).isNull}}
    \cup {CatchReply(e) : e \in NetworkErrors \cup {NullPropertyError}}

\* What fetch can bring back: a reply of the relay, a body that is not JSON
\* from a gateway in between, or no response at all.
Answers ==
    {[kind |-> "reply", status |-> r.status, reply |-> r] : r \in RelayReplies}
    \cup {[kind |-> "notJson", status |-> 502],
          [kind |-> "networkFailure", status |-> 0]}

Threw(message) == [threw |-> TRUE, message |-> message]

\* apiCall: fetch, response.json(), then the response.ok check; every
\* exception leaves as an Error.
apiCall(answer) ==
    IF answer.kind = "networkFailure"
    THEN Threw(<<"Network request failed">>)
    ELSE IF answer.kind = "notJson"
    THEN Threw(<<"JSON Parse error: Unexpected token">>)
    ELSE IF ~Ok(answer)
    THEN Threw(IF "error" \in DOMAIN answer.reply /\ ~Falsy(answer.reply.error)
               THEN answer.reply.error
               ELSE <<"Request failed with status ", ToString(answer.status)>>)
    ELSE [threw |-> FALSE, data |-> answer.reply]

\* A handler that reports success whatever apiCall did.
ModalAlwaysSuccess(result) ==
    [title |-> <<"Success">>, message |-> <<"Notification sent successfully!">>,
     type |-> "success"]

\* The modal handlePress shows: Success after the try block, Error from the
\* catch block.
ModalFor(result) ==
    IF result.threw
    THEN [title |-> <<"Error">>, message |-> result.message, type |-> "error"]
    ELSE [title |-> <<"Success">>,
          message |-> <<"Notification sent successfully!">> \o
                      (IF "notificationId" \in DOMAIN result.data
                          /\ ~Falsy(result.data.notificationId)
                       THEN <<"Notification ID: ">> \o result.data.notificationId
                       ELSE << >>),
          type |-> "success"]

\* A button that stays enabled while a send is in flight.
PressNeverDisabled == FALSE

\* disabled={loading}
PressDisabled == button.loading

\* handlePress up to its await: setLoading(true) and the request leaves.
Press ==
    /\ ~PressDisabled
    /\ sendLog.presses < MaxPresses
    /\ button' = [button EXCEPT !.loading = TRUE]
    /\ inFlight' = inFlight + 1
    /\ sendLog' = [sendLog EXCEPT !.presses = @ + 1]
    /\ UNCHANGED <<relayVars, providerVars, screenVars>>

\* handlePress after its await: showModal from the try or the catch block,
\* then finally setLoading(false).
Settle(answer) ==
    /\ inFlight > 0
    /\ inFlight' = inFlight - 1
    /\ button' = [loading |-> FALSE, modalVisible |-> TRUE,
                  modalConfig |-> ModalFor(apiCall(answer))]
    /\ sendLog' = [sendLog EXCEPT !.shown = @ + 1, !.last = answer]
    /\ UNCHANGED <<relayVars, providerVars, screenVars>>

\* The modal's onClose.
CloseModal ==
    /\ button.modalVisible
    /\ button' = [button EXCEPT !.modalVisible = FALSE]
    /\ UNCHANGED <<inFlight, sendLog>>
    /\ UNCHANGED <<relayVars, providerVars, screenVars>>

ButtonNext ==
    \/ Press
    \/ \E a \in Answers : Settle(a)
    \/ CloseModal

----------------------------------------------------------------------------
(* Properties of the relay *)

FieldMissing(req) ==
    \/ ~req.hasBody
    \/ "title" \notin DOMAIN req.body
    \/ "message" \notin DOMAIN req.body
    \/ req.body.title = << >>
    \/ req.body.message = << >>

WellFormed(req) == ~FieldMissing(req)

ProviderAnswered == response.status # 0

JsonBodies == RawBodies \ {RawHtml}

CaughtMessage ==
    IF thrown.isError THEN thrown.message ELSE <<"Unknown error occurred">>

\* C1: every request whose title or message is absent or empty, whatever
\* the key, is answered 400 {success: false, error: "Missing required
\* fields: title and message"} and no fetch is made.
C1_MissingFieldsRejected ==
    (rpc = "done" /\ FieldMissing(request)) =>
        /\ reply = [status |-> 400, success |-> FALSE,
                    error |-> <<"Missing required fields: title and message">>]
        /\ fetchCalls = 0

\* C2: a request with both fields non-empty, when the key is not set in the
\* environment, is answered 500 {success: false, error: "OneSignal not
\* configured"} and no fetch is made at any point of its handling.
C2_NotConfigured ==
    (rpc \in {"handler", "fetch", "text", "json", "done"}
        /\ WellFormed(request) /\ ~restApiKey.set) =>
        /\ fetchCalls = 0
        /\ rpc \in {"handler", "done"}
        /\ rpc = "done" =>
              reply = [status |-> 500, success |-> FALSE,
                       error |-> <<"OneSignal not configured">>]

C2_Witness ==
    /\ rpc = "done"
    /\ WellFormed(request)
    /\ ~restApiKey.set
    /\ reply.status = 500

\* C3 as claimed: whenever the provider answers non-2xx, the reply is 500
\* {success: false, error: "OneSignal API error: <status text>"} and does
\* not hold the provider's raw body.
C3_AsClaimed ==
    (rpc = "done" /\ ProviderAnswered /\ ~Ok(response)) =>
        /\ reply = [status |-> 500, success |-> FALSE,
                    error |-> <<"OneSignal API error: ">> \o response.statusText]
        /\ ~Contains(reply.error, response.raw)

\* C3 amended: whenever the provider answers non-2xx, the reply is 500 with
\* success: false and never holds the provider's raw body; its error is
\* "OneSignal API error: <status text>" when the error body was read, and
\* the catch-all's message when reading the error body threw.
C3_ProviderError ==
    (rpc = "done" /\ ProviderAnswered /\ ~Ok(response)) =>
        /\ reply.status = 500
        /\ reply.success = FALSE
        /\ ~Contains(reply.error, response.raw)
        /\ reply.error = IF thrown.raised
                         THEN CaughtMessage
                         ELSE <<"OneSignal API error: ">> \o response.statusText

C3_Witness ==
    /\ rpc = "done"
    /\ response.status = 400
    /\ ~thrown.raised
    /\ reply.error = <<"OneSignal API error: ", "Bad Request">>

IdMatchesProvider ==
    /\ \A id \in ProviderIds :
          response.raw = RawWithId(id) =>
              "notificationId" \in DOMAIN reply /\ reply.notificationId = id
    /\ (\A id \in ProviderIds : response.raw # RawWithId(id)) =>
          "notificationId" \notin DOMAIN reply

SaysSuccess == "success" \in DOMAIN reply /\ reply.success

\* C4 as claimed: whenever the provider call succeeds and its body is read
\* as JSON, the reply is 200 with success: true and the body's id (absent
\* when the body has none).
C4_AsClaimed ==
    (rpc = "done" /\ Ok(response) /\ response.raw \in JsonBodies
        /\ thrown \notin NetworkErrors) =>
        /\ reply.status = 200
        /\ SaysSuccess
        /\ IdMatchesProvider

\* C4 amended: whenever the provider call succeeds and its body is read as
\* JSON other than null, the reply is 200 with success: true and the body's
\* id (absent when the body has none); and a reply says success: true only
\* then.
C4_Success ==
    /\ (rpc = "done" /\ Ok(response) /\ response.raw \in JsonBodies \ {RawNull}
           /\ thrown \notin NetworkErrors) =>
           /\ reply.status = 200
           /\ SaysSuccess
           /\ IdMatchesProvider
    /\ SaysSuccess =>
           /\ rpc = "done"
           /\ reply.status = 200
           /\ WellFormed(request)
           /\ restApiKey.set /\ restApiKey.value # << >>
           /\ fetchCalls = 1
           /\ Ok(response)
           /\ response.raw \in JsonBodies \ {RawNull}
           /\ ~thrown.raised

C4_Witness ==
    /\ rpc = "done"
    /\ response.raw = RawWithId(<<"abc123">>)
    /\ reply = [status |-> 200, success |-> TRUE, notificationId |-> <<"abc123">>]

\* C5: an exception raised while a request is handled is answered 500
\* {success: false, error: <its message, or "Unknown error occurred">}, and
\* no exception leaves the handler.
C5_ExceptionsCaught ==
    /\ ~unhandled
    /\ thrown.raised =>
          /\ rpc = "done"
          /\ reply = [status |-> 500, success |-> FALSE, error |-> CaughtMessage]

C5_Witness ==
    /\ rpc = "done"
    /\ thrown.raised
    /\ ~thrown.isError
    /\ ProviderAnswered
    /\ reply.error = <<"Unknown error occurred">>

\* C6: no reply holds the configured secret key.
C6_NoSecretInReply ==
    (rpc = "done" /\ restApiKey.set /\ restApiKey.value # << >>) =>
        /\ "error" \in DOMAIN reply => ~Contains(reply.error, restApiKey.value)
        /\ "notificationId" \in DOMAIN reply =>
              ~Contains(reply.notificationId, restApiKey.value)

----------------------------------------------------------------------------
(* Properties of the client *)

SdkUntouched ==
    /\ sdk.callCount = 0
    /\ sdk.initialized = 0
    /\ sdk.fgListeners = 0
    /\ sdk.permListeners = 0
    /\ \A k \in TagKeys : sdk.tags[k] = NoTag

\* C7: on every path of the mount effect loading becomes false, and once
\* false it does not become true again for as long as the provider stays
\* mounted.
C7_LoadingCleared ==
    /\ <>(~loading)
    /\ [](cpc = "ready" => ~loading)
    /\ [][(~loading /\ mounts' = mounts) => ~loading']_vars

C7_Witness ==
    /\ cpc = "ready"
    /\ ~loading
    /\ ~isWeb
    /\ sdk.callCount = 1
    /\ sdk.initialized = 0

\* C8: off the web with no application identifier, the effect leaves
\* loading and hasPermission false without touching the SDK, and no later
\* operation calls the SDK or changes state.
C8_InertWithoutAppId ==
    (~isWeb /\ ONESIGNAL_APP_ID = << >>) =>
        /\ cpc = "ready" => ~loading
        /\ ~hasPermission
        /\ ~permissionDenied
        /\ SdkUntouched
        /\ \A i \in DOMAIN calls : ~calls[i].sdkCalled

\* C9: on the web the SDK is never called: the effect initializes nothing
\* and registers no listener, requestPermission returns false, sendTag and
\* deleteTag return without effect, and hasPermission, permissionDenied and
\* lastNotification keep their initial values.
C9_WebNeverCallsSdk ==
    isWeb =>
        /\ SdkUntouched
        /\ ~hasPermission
        /\ ~permissionDenied
        /\ lastNotification = Null
        /\ prompts = 0
        /\ \A i \in DOMAIN calls :
              /\ ~calls[i].sdkCalled
              /\ calls[i].completed
              /\ ~calls[i].value

C9_Witness ==
    /\ isWeb
    /\ cpc = "ready"
    /\ \E i, j \in DOMAIN calls :
          calls[i].op = "requestPermission" /\ calls[j].op = "sendTag"

\* C10: off the web, an operation whose SDK call throws still returns to
\* its caller: requestPermission returns false, sendTag and deleteTag
\* return normally.
C10_SdkErrorsSwallowed ==
    ~isWeb =>
        \A i \in DOMAIN calls :
            /\ calls[i].completed
            /\ calls[i].sdkThrew => ~calls[i].value

C10_Witness ==
    /\ ~isWeb
    /\ Len(calls) >= 2
    /\ calls[1].op = "sendTag" /\ calls[1].sdkThrew /\ calls[1].completed
    /\ calls[2].op = "deleteTag" /\ calls[2].sdkThrew /\ calls[2].completed
    /\ calls[1].key = calls[2].key

\* A requestPermission call whose SDK prompt threw returns in this step.
PromptFailureReturns ==
    /\ Len(calls') = Len(calls) + 1
    /\ calls'[Len(calls')].op = "requestPermission"
    /\ calls'[Len(calls')].sdkThrew

\* C11: off the web, when the SDK's permission prompt throws, requestPermission
\* returns false and the permission state becomes Denied: permissionDenied
\* is true and hasPermission is false.
C11_PromptFailureIsDenial ==
    [][(~isWeb /\ PromptFailureReturns) =>
          /\ ~calls'[Len(calls')].value
          /\ permissionDenied'
          /\ ~hasPermission']_vars


\* C12: off the web with an application identifier, however often the
\* provider is mounted and unmounted, the SDK's initialize has been called at
\* most once, and the SDK holds one foreground listener and one permission
\* listener for each mount whose effect registered them.
C12_InitializedOnce ==
    (~isWeb /\ ONESIGNAL_APP_ID # << >>) =>
        /\ sdk.initialized <= 1
        /\ sdk.fgListeners <= mounts
        /\ sdk.permListeners <= mounts
        /\ listening.fg => sdk.fgListeners >= 1
        /\ listening.perm => sdk.permListeners >= 1

\* The mounted provider's foreground listener is registered with the SDK.
ForegroundListening == ~isWeb /\ cpc = "ready" /\ listening.fg

C14_DeniedNeverPrompts ==
    /\ [][permissionDenied =>
             /\ promptRequests' = promptRequests
             /\ prompts' <= prompts
             /\ sdk'.callCount = sdk.callCount]_vars
    /\ [][promptRequests' # promptRequests =>
             ~permissionDenied /\ ~hasPermission]_vars
    /\ [][(permissionDenied /\ mounts' = mounts /\ ~permissionDenied') =>
             hasPermission']_vars
    /\ [](~(permissionDenied /\ hasPermission))

C14_Witness ==
    /\ ~isWeb
    /\ permissionDenied
    /\ dialog = "settings"
    /\ promptRequests = 1
    /\ prompts = 0
    /\ Len(calls) = 1
    /\ calls[1].op = "requestPermission"
    /\ ~calls[1].sdkThrew
    /\ ~calls[1].value

\* C15 as claimed: off the web, for every category toggled since the screen
\* mounted, the local toggle is the last toggled value and the provider tag is
\* "true" exactly when the local toggle is on.
C15_AsClaimed ==
    ~isWeb =>
        \A k \in TagKeys :
            toggles[k].toggled =>
                /\ categories[k] = toggles[k].value
                /\ sdk.tags[k] = "true" <=> categories[k]

\* A toggle of category k whose SDK call threw happens in this step.
ToggleThrew(k) ==
    /\ toggles'[k] # toggles[k]
    /\ toggles'[k].toggled
    /\ toggles'[k].sdkThrew

\* C15: off the web, for every category toggled since the screen mounted, the
\* local toggle is the last toggled value; the provider tag is "true" exactly
\* when the local toggle is on if the SDK call of that last toggle returned,
\* and a toggle whose SDK call threw leaves the tag as it was.
C15_ToggleSetsTag ==
    /\ [](~isWeb =>
             \A k \in TagKeys :
                 toggles[k].toggled =>
                     /\ categories[k] = toggles[k].value
                     /\ ~toggles[k].sdkThrew =>
                            (sdk.tags[k] = "true" <=> categories[k]))
    /\ [][\A k \in TagKeys :
             ToggleThrew(k) =>
                 /\ sdk'.tags = sdk.tags
                 /\ categories'[k] = ~categories[k]]_vars

C15_Witness ==
    /\ ~isWeb
    /\ \E k \in TagKeys :
          /\ toggles[k].toggled
          /\ toggles[k].value
          /\ ~toggles[k].sdkThrew
          /\ categories[k]
          /\ sdk.tags[k] = "true"
          /\ Len(calls) = MaxCalls
          /\ calls[1].op = "deleteTag"

\* C16: for every press of the send button, loading is true exactly while
\* the relay call is in flight and at most one call is in flight; each press
\* that has settled has shown one modal and left loading false; the modal is
\* Success only if the relay answered with a 2xx status, and Error after any
\* other status and after a network failure.
C16_OneModalPerPress ==
    /\ [](inFlight <= 1)
    /\ [](button.loading <=> inFlight = 1)
    /\ [](sendLog.shown + inFlight = sendLog.presses)
    /\ [](sendLog.shown > 0 =>
             /\ button.modalConfig.title \in {<<"Success">>, <<"Error">>}
             /\ button.modalConfig.title = <<"Success">> =>
                    /\ sendLog.last.kind = "reply"
                    /\ Ok(sendLog.last)
                    /\ button.modalConfig.type = "success"
             /\ (sendLog.last.kind = "networkFailure" \/ ~Ok(sendLog.last)) =>
                    /\ button.modalConfig.title = <<"Error">>
                    /\ button.modalConfig.type = "error")
    /\ [][sendLog'.shown # sendLog.shown =>
             /\ sendLog'.shown = sendLog.shown + 1
             /\ button.loading
             /\ ~button'.loading
             /\ button'.modalVisible]_vars

C16_Witness ==
    /\ sendLog.presses = 2
    /\ sendLog.shown = 2
    /\ inFlight = 0
    /\ ~button.loading
    /\ button.modalVisible
    /\ button.modalConfig.title = <<"Error">>
    /\ button.modalConfig.message = <<"OneSignal not configured">>
    /\ sendLog.last = [kind |-> "reply", status |-> 500, reply |-> NotConfiguredReply]

Init == RelayInit /\ ClientInit

Next == RelayNext \/ ClientNext \/ ScreenNext \/ ButtonNext

Spec == Init /\ [][Next]_vars

\* The relay alone, and the client alone: the two share no state.
RelaySpec == Init /\ [][RelayNext]_vars

ClientSpec == Init /\ [][ClientNext]_vars

ScreenSpec == Init /\ [][ScreenNext]_vars

ButtonSpec == Init /\ [][ButtonNext]_vars

\* React runs a mounted component's effect, and the SDK settles a prompt.
ClientFairSpec ==
    ClientSpec /\ WF_vars(\E failAt \in InitFailures : InitEffect(failAt))

====
